---- MODULE Spec2Model ----
(***************************************************************************)
(* Subnet ping scanner (python-ping-tool/pingtool.py).                     *)
(*                                                                         *)
(* scan_subnet parses a range in prefix notation, expands it into its host *)
(* addresses, submits one ping_host call per host to a ThreadPoolExecutor  *)
(* of max_workers threads, aggregates the outcomes in the order            *)
(* as_completed yields them, and returns the list of non-pingable hosts.   *)
(* main sorts that list by numeric address when it prints it.              *)
(*                                                                         *)
(* An address string is modelled by its dot-separated fields; a field is   *)
(* a token: decimal digits with a value, or text that is not a number.     *)
(* A host address string "a.b.c.d" is the tuple <<a, b, c, d>>.            *)
(***************************************************************************)
EXTENDS Integers, Sequences, FiniteSets, TLC

VARIABLES
    subnet,          \* scan_subnet's argument: the range string
    max_workers,     \* scan_subnet's argument: size of the thread pool
    pc,              \* position of scan_subnet
    e,               \* the exception caught at line 101 ("none" when none)
    host_ips,        \* line 64: the host address strings, in range order
    submitted,       \* number of hosts already submitted by lines 78-81
    queue,           \* the executor's work queue: host indexes, FIFO
    worker,          \* worker[w]: index of the host thread w is probing, 0 idle
    idle_sem,        \* the executor's idle semaphore
    fut,             \* fut[i]: the future of host i
    probes,          \* probes[i]: number of ping subprocesses run for host i
    prober,          \* the network: answer given for each address probed so far
    yielded,         \* futures already yielded by as_completed
    non_pingable,    \* line 72
    pingable_count,  \* line 73
    ret,             \* scan_subnet's return value
    shown,           \* the list main prints at lines 173-174
    mpc,             \* position of main
    run,             \* number of the current scan_subnet call
    prev,            \* results of the earlier scan_subnet calls
    ipc,             \* position of get_subnet_input ("direct": not called)
    line,            \* line 123: subnet_input
    response,        \* line 135: the answer to the large-range warning
    prompts,         \* number of lines read at line 123
    report           \* what main prints at lines 170-182

vars == <<subnet, max_workers, pc, e, host_ips, submitted, queue, worker,
          idle_sem, fut, probes, prober, yielded, non_pingable,
          pingable_count, ret, shown, mpc, run, prev,
          ipc, line, response, prompts, report>>

\* the variables of get_subnet_input and of main's summary
input_vars == <<ipc, line, response, prompts>>

(***************************************************************************)
(* Bounds of the model.                                                    *)
(***************************************************************************)
MaxWorkers == 2      \* max_workers ranges over 1..MaxWorkers
MaxRuns == 2         \* scan_subnet calls in a row on the same range
ExpandHostBits == 8  \* expanded ranges have a prefix length >= 32 - ExpandHostBits
MaxPrompts == 2      \* lines get_subnet_input reads at line 123

(***************************************************************************)
(* Range strings.                                                          *)
(***************************************************************************)
Num(v) == [digits |-> TRUE, val |-> v]
Text == [digits |-> FALSE, val |-> 0]

\* "a.b.c.d/p"
Cidr(a, b, c, d, p) == [addr |-> <<Num(a), Num(b), Num(c), Num(d)>>,
                        prefix |-> <<Num(p)>>]

RECURSIVE Pow2(_)
Pow2(n) == IF n = 0 THEN 1 ELSE 2 * Pow2(n - 1)

\* ipaddress.IPv4Address(x): the numeric value of a dotted quad
IPv4Value(ip) == ip[1] * Pow2(24) + ip[2] * Pow2(16) + ip[3] * Pow2(8) + ip[4]

\* str(ip): the dotted quad of a numeric address
ToStr(a) == <<a \div Pow2(24), (a \div Pow2(16)) % 256, (a \div Pow2(8)) % 256, a % 256>>

\* ipaddress.IPv4Network(subnet, strict=False)
OctetOK(t) == t.digits /\ t.val <= 255
AddressOK(s) == /\ Len(s.prefix) <= 1
                /\ Len(s.addr) = 4
                /\ \A k \in 1..4 : OctetOK(s.addr[k])
PrefixOK(s) == Len(s.prefix) = 0 \/ (s.prefix[1].digits /\ s.prefix[1].val <= 32)
PrefixLen(s) == IF Len(s.prefix) = 0 THEN 32 ELSE s.prefix[1].val
ParseNetwork(s) ==
    IF ~AddressOK(s) THEN [ok |-> FALSE, err |-> "AddressValueError", network |-> 0, prefixlen |-> 0]
    ELSE IF ~PrefixOK(s) THEN [ok |-> FALSE, err |-> "NetmaskValueError", network |-> 0, prefixlen |-> 0]
    ELSE LET a == IPv4Value(<<s.addr[1].val, s.addr[2].val, s.addr[3].val, s.addr[4].val>>)
             size == Pow2(32 - PrefixLen(s))
         IN [ok |-> TRUE, err |-> "none", network |-> a - (a % size), prefixlen |-> PrefixLen(s)]

\* network.hosts() without the /31 and /32 cases: nothing is left of the block
HostsNoSmallBlocks(net, p) ==
    [k \in 1..(Pow2(32 - p) - 2) |-> net + k]

\* network.hosts()
Hosts(net, p) ==
    IF p = 32 THEN <<net>>
    ELSE IF p = 31 THEN <<net, net + 1>>
    ELSE [k \in 1..(Pow2(32 - p) - 2) |-> net + k]

\* line 64: [str(ip) for ip in network.hosts()]
HostStrings(n) == LET h == Hosts(n.network, n.prefixlen)
                  IN [k \in 1..Len(h) |-> ToStr(h[k])]


\* network.num_addresses, line 134
NumAddresses(n) == Pow2(32 - n.prefixlen)

\* str(network), line 139: the range string of the parsed network
NetworkString(n) == LET a == ToStr(n.network)
                    IN Cidr(a[1], a[2], a[3], a[4], n.prefixlen)

\* the range strings get_subnet_input can return to main (line 149)
FromInput(s) == ParseNetwork(s).ok /\ s = NetworkString(ParseNetwork(s))

\* len(list(ipaddress.IPv4Network(subnet).hosts())), lines 177-182
TotalShown(s) == Len(Hosts(ParseNetwork(s).network, ParseNetwork(s).prefixlen))

\* sorted(non_pingable_ips, key=lambda x: ipaddress.IPv4Address(x)), line 173
RECURSIVE Insert(_, _)
Insert(sorted, ip) ==
    IF sorted = <<>> THEN <<ip>>
    ELSE IF IPv4Value(ip) < IPv4Value(Head(sorted)) THEN <<ip>> \o sorted
    ELSE <<Head(sorted)>> \o Insert(Tail(sorted), ip)

RECURSIVE SortByAddr(_)
SortByAddr(list) ==
    IF list = <<>> THEN <<>>
    ELSE Insert(SortByAddr(SubSeq(list, 1, Len(list) - 1)), list[Len(list)])

\* the list printed without the sort
DisplayUnsorted(list) == list

\* lines 171-174: the non-pingable addresses in the order main prints them
Display(list) == SortByAddr(list)

(***************************************************************************)
(* ping_host.  kind is what the ping subprocess did: exit status 0, a      *)
(* non-zero exit status, subprocess.TimeoutExpired, or another exception   *)
(* (the ping binary cannot be launched).                                   *)
(***************************************************************************)
Kinds == {"rc0", "nonzero", "TimeoutExpired", "OSError"}

\* ping_host with the handler of line 43 missing: the exception escapes
PingHostRaises(ip, kind) ==
    IF kind = "OSError" THEN [exc |-> TRUE, ip |-> ip, ok |-> FALSE]
    ELSE [exc |-> FALSE, ip |-> ip, ok |-> (kind = "rc0")]

\* ping_host with the return code test inverted
PingHostInverted(ip, kind) ==
    IF kind \in {"rc0", "nonzero"} THEN [exc |-> FALSE, ip |-> ip, ok |-> (kind # "rc0")]
    ELSE [exc |-> FALSE, ip |-> ip, ok |-> FALSE]

\* ping_host, lines 26-45: what the call leaves in its future
PingHost(ip, kind) ==
    IF kind \in {"rc0", "nonzero"} THEN [exc |-> FALSE, ip |-> ip, ok |-> (kind = "rc0")]
    ELSE IF kind = "TimeoutExpired" THEN [exc |-> FALSE, ip |-> ip, ok |-> FALSE]
    ELSE [exc |-> FALSE, ip |-> ip, ok |-> FALSE]

(***************************************************************************)
(* The thread pool of line 76.                                             *)
(***************************************************************************)
\* a probe with no timeout that never ends: its future stays running
NeverFinished(r) == [state |-> "running", exc |-> FALSE, ip |-> <<>>, ok |-> FALSE]

NoFuture == [state |-> "none", exc |-> FALSE, ip |-> <<>>, ok |-> FALSE]
PendingFuture == [state |-> "pending", exc |-> FALSE, ip |-> <<>>, ok |-> FALSE]
RunningFuture == [state |-> "running", exc |-> FALSE, ip |-> <<>>, ok |-> FALSE]
Finished(r) == [state |-> "finished", exc |-> r.exc, ip |-> r.ip, ok |-> r.ok]

\* a pool that never starts a second thread
AdjustSingleThread(w, sem, maxw) ==
    IF sem > 0 THEN [worker |-> w, idle_sem |-> sem - 1]
    ELSE IF Len(w) < 1 THEN [worker |-> Append(w, 0), idle_sem |-> sem]
    ELSE [worker |-> w, idle_sem |-> sem]

\* a pool that starts a thread for every task that finds no idle thread
AdjustNoCeiling(w, sem, maxw) ==
    IF sem > 0 THEN [worker |-> w, idle_sem |-> sem - 1]
    ELSE [worker |-> Append(w, 0), idle_sem |-> sem]

\* executor.submit's thread start: ThreadPoolExecutor(max_workers=max_workers)
AdjustThreadCount(w, sem, maxw) ==
    IF sem > 0 THEN [worker |-> w, idle_sem |-> sem - 1]
    ELSE IF Len(w) < maxw THEN [worker |-> Append(w, 0), idle_sem |-> sem]
    ELSE [worker |-> w, idle_sem |-> sem]

\* a work queue whose get leaves the item in the queue while other items wait
DequeueKeeps(q) == IF Len(q) > 1 THEN Tail(q) \o <<Head(q)>> ELSE Tail(q)

\* the work queue after a worker's get
Dequeue(q) == Tail(q)

\* lines 87-92 with the append outside the else branch
AggregateAlwaysAppends(np, cnt, ip, ok) ==
    IF ok THEN [np |-> Append(np, ip), cnt |-> cnt + 1]
    ELSE [np |-> Append(np, ip), cnt |-> cnt]

\* lines 87-92: one outcome merged into the result
Aggregate(np, cnt, ip, ok) ==
    IF ok THEN [np |-> np, cnt |-> cnt + 1]
    ELSE [np |-> Append(np, ip), cnt |-> cnt]

\* the list of the previous call, kept instead of a new one
StaleList == non_pingable

\* line 72: non_pingable = []
NewList == <<>>

\* an as_completed that yields a finished future again
ToYieldAgain == 1..Len(host_ips)

\* line 84: the futures as_completed has not yielded yet
ToYield == (1..Len(host_ips)) \ yielded

Busy == {w \in 1..Len(worker) : worker[w] # 0}
PoolAlive == pc \in {"submit", "collect", "exit_exc"}
Returned == pc \in {"return99", "return103", "raised"}

\* a pool left without waiting for its threads
PoolNotJoined == TRUE

\* the end of the with block of line 76: shutdown(wait=True) has joined the
\* worker threads, which leave once the queue is drained
PoolJoined == Busy = {} /\ (queue = <<>> \/ Len(worker) = 0)

(***************************************************************************)
(* get_subnet_input and main.                                              *)
(***************************************************************************)
LargeScan == 1024

\* the empty line (nothing but blanks before strip)
EmptyLine == [addr |-> <<>>, prefix |-> <<>>]

\* an answer to the warning of line 135: a word, typed in upper or lower
\* case, with or without blanks around it
Answer(w, u, b) == [word |-> w, upper |-> u, padded |-> b]
NoResponse == Answer("", FALSE, FALSE)
Responses == {Answer(w, u, b) : w \in {"y", "yes", "n", ""}, u \in BOOLEAN, b \in BOOLEAN}

\* a confirmation that only a plain "n" declines
AcceptsUnlessNo(r) == r.word # "n"

\* line 136: response.strip().lower() in ['y', 'yes']
Accepts(r) == r.word \in {"y", "yes"}

NoReport == [msg |-> "none", total |-> 0, pingable |-> <<>>]

(***************************************************************************)
(* Inputs.                                                                 *)
(***************************************************************************)
BadRanges == {
    [addr |-> <<Text>>, prefix |-> <<Num(24)>>],                          \* "not-an-ip/24"
    Cidr(10, 0, 0, 0, 33),                                                \* "10.0.0.0/33"
    Cidr(10, 0, 0, 256, 30),                                              \* "10.0.0.256/30"
    [addr |-> <<Num(10), Num(0), Num(0)>>, prefix |-> <<Num(30)>>],       \* "10.0.0/30"
    [addr |-> <<Num(10), Num(0), Num(0), Num(0)>>, prefix |-> <<Text>>],  \* "10.0.0.0/x"
    [addr |-> <<Num(10), Num(0), Num(0), Num(0)>>, prefix |-> <<Num(30), Num(1)>>] } \* "10.0.0.0/30/1"

\* scanned ranges: 1 or 2 hosts; the next block size, a /29, has 6 (WideInputs)
ScanPrefixes == {30, 31, 32}
ScanInputs ==
    {Cidr(10, 0, 0, d, p) : d \in {0, 9}, p \in ScanPrefixes}
    \cup {[addr |-> <<Num(10), Num(0), Num(0), Num(7)>>, prefix |-> <<>>]}  \* "10.0.0.7"
    \cup BadRanges

\* "10.0.0.8/29": the six hosts 10.0.0.9 .. 10.0.0.14
WideInputs == {Cidr(10, 0, 0, 8, 29)}

ExpandInputs ==
    {Cidr(10, b, c, d, p) : b \in {0, 1}, c \in {0, 255}, d \in {0, 9, 255},
                            p \in (32 - ExpandHostBits)..32}
    \cup BadRanges

(***************************************************************************)
(* scan_subnet.                                                            *)
(***************************************************************************)
InitWith(inputs) ==
    /\ subnet \in inputs
    /\ max_workers \in 1..MaxWorkers
    /\ pc = "parse"
    /\ e = "none"
    /\ host_ips = <<>>
    /\ submitted = 0
    /\ queue = <<>>
    /\ worker = <<>>
    /\ idle_sem = 0
    /\ fut = <<>>
    /\ probes = <<>>
    /\ prober = <<>>
    /\ yielded = {}
    /\ non_pingable = <<>>
    /\ pingable_count = 0
    /\ ret = <<>>
    /\ shown = <<>>
    /\ mpc = "scan"
    /\ run = 1
    /\ prev = <<>>
    /\ ipc = "direct"
    /\ line = EmptyLine
    /\ response = NoResponse
    /\ prompts = 0
    /\ report = NoReport

Init == InitWith(ScanInputs)

\* lines 59-73 and, when the range does not parse, lines 101-103
Parse ==
    /\ pc = "parse"
    /\ LET n == ParseNetwork(subnet)
       IN IF n.ok
          THEN /\ host_ips' = HostStrings(n)
               /\ fut' = [i \in 1..Len(HostStrings(n)) |-> NoFuture]
               /\ probes' = [i \in 1..Len(HostStrings(n)) |-> 0]
               /\ non_pingable' = NewList
               /\ pingable_count' = 0
               /\ pc' = "submit"
               /\ UNCHANGED <<e, ret>>
          ELSE /\ e' = n.err
               /\ pc' = "return103"
               /\ ret' = <<>>
               /\ UNCHANGED <<host_ips, fut, probes, non_pingable, pingable_count>>
    /\ UNCHANGED <<subnet, max_workers, submitted, queue, worker, idle_sem, prober,
                   yielded, shown, mpc, run, prev>>
    /\ UNCHANGED <<input_vars, report>>

\* lines 78-81: executor.submit(ping_host, ip, timeout) for the next host
Submit ==
    /\ pc = "submit"
    /\ submitted < Len(host_ips)
    /\ LET i == submitted + 1
           a == AdjustThreadCount(worker, idle_sem, max_workers)
       IN /\ queue' = Append(queue, i)
          /\ fut' = [fut EXCEPT ![i] = PendingFuture]
          /\ worker' = a.worker
          /\ idle_sem' = a.idle_sem
          /\ submitted' = i
    /\ UNCHANGED <<subnet, max_workers, pc, e, host_ips, probes, prober, yielded,
                   non_pingable, pingable_count, ret, shown, mpc, run, prev>>
    /\ UNCHANGED <<input_vars, report>>

\* lines 78-81: executor.submit fails to start a thread (RuntimeError: can't
\* start new thread); the task is already in the queue
SubmitRaises ==
    /\ pc = "submit"
    /\ submitted < Len(host_ips)
    /\ idle_sem = 0
    /\ Len(worker) < max_workers
    /\ LET i == submitted + 1
       IN /\ queue' = Append(queue, i)
          /\ fut' = [fut EXCEPT ![i] = PendingFuture]
          /\ submitted' = i
    /\ e' = "RuntimeError"
    /\ pc' = "exit_exc"
    /\ UNCHANGED <<subnet, max_workers, host_ips, worker, idle_sem, probes, prober,
                   yielded, non_pingable, pingable_count, ret, shown, mpc, run, prev>>
    /\ UNCHANGED <<input_vars, report>>

\* line 84: every host is submitted, as_completed starts
AllSubmitted ==
    /\ pc = "submit"
    /\ submitted = Len(host_ips)
    /\ pc' = "collect"
    /\ UNCHANGED <<subnet, max_workers, e, host_ips, submitted, queue, worker, idle_sem,
                   fut, probes, prober, yielded, non_pingable, pingable_count, ret,
                   shown, mpc, run, prev>>
    /\ UNCHANGED <<input_vars, report>>

\* an idle worker thread takes the next task and calls ping_host (line 31)
StartProbe(w) ==
    /\ PoolAlive
    /\ worker[w] = 0
    /\ queue # <<>>
    /\ LET i == Head(queue)
       IN /\ worker' = [worker EXCEPT ![w] = i]
          /\ fut' = [fut EXCEPT ![i] = RunningFuture]
          /\ probes' = [probes EXCEPT ![i] = @ + 1]
    /\ queue' = Dequeue(queue)
    /\ UNCHANGED <<subnet, max_workers, pc, e, host_ips, submitted, idle_sem, prober,
                   yielded, non_pingable, pingable_count, ret, shown, mpc, run, prev>>
    /\ UNCHANGED <<input_vars, report>>

\* ping_host returns (lines 39-45) and the worker sets the future's result
FinishProbe(w, kind) ==
    /\ PoolAlive
    /\ worker[w] # 0
    /\ LET i == worker[w]
           ip == host_ips[i]
       IN /\ ip \in DOMAIN prober => kind = prober[ip]
          /\ prober' = IF ip \in DOMAIN prober THEN prober ELSE prober @@ (ip :> kind)
          /\ fut' = [fut EXCEPT ![i] = Finished(PingHost(ip, kind))]
    /\ worker' = [worker EXCEPT ![w] = 0]
    /\ idle_sem' = idle_sem + 1
    /\ UNCHANGED <<subnet, max_workers, pc, e, host_ips, submitted, queue, probes,
                   yielded, non_pingable, pingable_count, ret, shown, mpc, run, prev>>
    /\ UNCHANGED <<input_vars, report>>

\* lines 84-92: as_completed yields a finished future and its outcome is merged
Collect(i) ==
    /\ pc = "collect"
    /\ i \in ToYield
    /\ fut[i].state = "finished"
    /\ yielded' = yielded \cup {i}
    /\ IF fut[i].exc
       THEN /\ e' = "ProbeError"
            /\ pc' = "exit_exc"
            /\ UNCHANGED <<non_pingable, pingable_count>>
       ELSE /\ LET a == Aggregate(non_pingable, pingable_count, fut[i].ip, fut[i].ok)
               IN /\ non_pingable' = a.np
                  /\ pingable_count' = a.cnt
            /\ UNCHANGED <<e, pc>>
    /\ UNCHANGED <<subnet, max_workers, host_ips, submitted, queue, worker, idle_sem,
                   fut, probes, prober, ret, shown, mpc, run, prev>>
    /\ UNCHANGED <<input_vars, report>>

\* lines 93-99: the loop is over, the pool is shut down, the list is returned
ExitNormal ==
    /\ pc = "collect"
    /\ yielded = 1..Len(host_ips)
    /\ PoolJoined
    /\ pc' = "return99"
    /\ ret' = non_pingable
    /\ UNCHANGED <<subnet, max_workers, e, host_ips, submitted, queue, worker, idle_sem,
                   fut, probes, prober, yielded, non_pingable, pingable_count,
                   shown, mpc, run, prev>>
    /\ UNCHANGED <<input_vars, report>>

\* an exception leaves the with block: the pool is shut down and its threads
\* joined, then lines 101-103 return []
ExitExc ==
    /\ pc = "exit_exc"
    /\ PoolJoined
    /\ pc' = "return103"
    /\ ret' = <<>>
    /\ UNCHANGED <<subnet, max_workers, e, host_ips, submitted, queue, worker, idle_sem,
                   fut, probes, prober, yielded, non_pingable, pingable_count,
                   shown, mpc, run, prev>>
    /\ UNCHANGED <<input_vars, report>>

\* main, lines 170-182: the report on the range get_subnet_input returned
Report ==
    /\ Returned
    /\ mpc = "scan"
    /\ FromInput(subnet)
    /\ shown' = Display(ret)
    /\ report' = IF ret # <<>>
                 THEN [msg |-> "found", total |-> TotalShown(subnet),
                       pingable |-> <<TotalShown(subnet) - Len(ret)>>]
                 ELSE [msg |-> "all_pingable", total |-> TotalShown(subnet),
                       pingable |-> <<>>]
    /\ mpc' = "reported"
    /\ UNCHANGED input_vars
    /\ UNCHANGED <<subnet, max_workers, pc, e, host_ips, submitted, queue, worker,
                   idle_sem, fut, probes, prober, yielded, non_pingable,
                   pingable_count, ret>>
    /\ UNCHANGED <<run, prev>>

\* scan_subnet is called again with the same arguments against the same network
Rerun ==
    /\ Returned
    /\ mpc = "scan"
    /\ run < MaxRuns
    /\ prev' = Append(prev, [ret |-> ret, pingable |-> pingable_count, pc |-> pc])
    /\ run' = run + 1
    /\ pc' = "parse"
    /\ e' = "none"
    /\ host_ips' = <<>>
    /\ submitted' = 0
    /\ queue' = <<>>
    /\ worker' = <<>>
    /\ idle_sem' = 0
    /\ fut' = <<>>
    /\ probes' = <<>>
    /\ yielded' = {}
    /\ ret' = <<>>
    /\ UNCHANGED <<subnet, max_workers, prober, non_pingable, pingable_count, shown, mpc>>
    /\ UNCHANGED <<input_vars, report>>

Next ==
    \/ Parse
    \/ Submit
    \/ SubmitRaises
    \/ AllSubmitted
    \/ \E w \in 1..Len(worker) : StartProbe(w)
    \/ \E w \in 1..Len(worker), kind \in Kinds : FinishProbe(w, kind)
    \/ \E i \in 1..Len(host_ips) : Collect(i)
    \/ ExitNormal
    \/ ExitExc
    \/ Report

Spec == Init /\ [][Next]_vars

\* the threads: scan_subnet's own, and the workers of the pool.  Each is
\* scheduled again and again; a started probe ends, at the latest when
\* subprocess.run gives up after timeout + 1 seconds (line 35)
MainStep ==
    \/ Parse
    \/ Submit
    \/ SubmitRaises
    \/ AllSubmitted
    \/ \E i \in 1..Len(host_ips) : Collect(i)
    \/ ExitNormal
    \/ ExitExc
WorkerStep(w) ==
    /\ w \in 1..Len(worker)
    /\ (StartProbe(w) \/ \E kind \in Kinds : FinishProbe(w, kind))
SpecFair ==
    /\ Init
    /\ [][Next]_vars
    /\ WF_vars(MainStep)
    /\ \A w \in 1..MaxWorkers : WF_vars(WorkerStep(w))

\* two calls of scan_subnet in a row
NextTwice == Next \/ Rerun
SpecTwice == Init /\ [][NextTwice]_vars

\* a scan of six hosts; the ping subprocess ends with an exit status
WideKinds == {"rc0", "nonzero"}
InitWide == InitWith(WideInputs)
NextWide ==
    \/ Parse
    \/ Submit
    \/ SubmitRaises
    \/ AllSubmitted
    \/ \E w \in 1..Len(worker) : StartProbe(w)
    \/ \E w \in 1..Len(worker), kind \in WideKinds : FinishProbe(w, kind)
    \/ \E i \in 1..Len(host_ips) : Collect(i)
    \/ ExitNormal
    \/ ExitExc
    \/ Report
SpecWide == InitWide /\ [][NextWide]_vars

\* get_subnet_input, lines 112-144, and main's call of scan_subnet
InputLines ==
    {Cidr(10, 0, 0, 0, p) : p \in {8, 16, 21, 22, 24, 30}}
    \cup {Cidr(10, 0, 0, 9, 30), EmptyLine,
          [addr |-> <<Num(10), Num(0), Num(0), Num(7)>>, prefix |-> <<>>]}
    \cup BadRanges

InitInput ==
    /\ subnet = EmptyLine
    /\ max_workers = 1
    /\ pc = "notcalled"
    /\ e = "none"
    /\ host_ips = <<>>
    /\ submitted = 0
    /\ queue = <<>>
    /\ worker = <<>>
    /\ idle_sem = 0
    /\ fut = <<>>
    /\ probes = <<>>
    /\ prober = <<>>
    /\ yielded = {}
    /\ non_pingable = <<>>
    /\ pingable_count = 0
    /\ ret = <<>>
    /\ shown = <<>>
    /\ mpc = "input"
    /\ run = 1
    /\ prev = <<>>
    /\ ipc = "prompt"
    /\ line = EmptyLine
    /\ response = NoResponse
    /\ prompts = 0
    /\ report = NoReport

scan_vars == <<max_workers, pc, e, host_ips, submitted, queue, worker, idle_sem, fut,
               probes, prober, yielded, non_pingable, pingable_count, ret, shown,
               run, prev, report>>

\* lines 123-144: a line is read and validated
ReadLine(l) ==
    /\ ipc = "prompt"
    /\ prompts < MaxPrompts
    /\ prompts' = prompts + 1
    /\ line' = l
    /\ IF l = EmptyLine
       THEN UNCHANGED <<ipc, subnet>>
       ELSE LET n == ParseNetwork(l)
            IN IF ~n.ok
               THEN UNCHANGED <<ipc, subnet>>
               ELSE IF NumAddresses(n) > LargeScan
                    THEN ipc' = "confirm" /\ UNCHANGED subnet
                    ELSE ipc' = "returned" /\ subnet' = NetworkString(n)
    /\ UNCHANGED <<response, mpc>>
    /\ UNCHANGED scan_vars

\* lines 135-139: the answer to the warning
Confirm(r) ==
    /\ ipc = "confirm"
    /\ response' = r
    /\ IF Accepts(r)
       THEN ipc' = "returned" /\ subnet' = NetworkString(ParseNetwork(line))
       ELSE ipc' = "prompt" /\ UNCHANGED subnet
    /\ UNCHANGED <<line, prompts, mpc>>
    /\ UNCHANGED scan_vars

\* main, lines 149-158: scan_subnet(subnet, max_workers=50, timeout=1)
CallScan ==
    /\ ipc = "returned"
    /\ mpc = "input"
    /\ mpc' = "scan"
    /\ pc' = "parse"
    /\ UNCHANGED <<subnet, max_workers, e, host_ips, submitted, queue, worker, idle_sem,
                   fut, probes, prober, yielded, non_pingable, pingable_count, ret,
                   shown, run, prev, report>>
    /\ UNCHANGED input_vars

NextInput ==
    \/ \E l \in InputLines : ReadLine(l)
    \/ \E r \in Responses : Confirm(r)
    \/ CallScan
SpecInput == InitInput /\ [][NextInput]_vars

\* range expansion alone, on ranges up to 2^ExpandHostBits addresses
InitExpand == InitWith(ExpandInputs)
SpecExpand == InitExpand /\ [][Parse]_vars

(***************************************************************************)
(* Properties.                                                             *)
(***************************************************************************)
HostIdx == 1..Len(host_ips)
Occurrences(list, ip) == Cardinality({k \in 1..Len(list) : list[k] = ip})
IsSortedByAddr(list) == \A k \in 1..(Len(list) - 1) : IPv4Value(list[k]) < IPv4Value(list[k + 1])
SameElements(l1, l2) == /\ Len(l1) = Len(l2)
                        /\ \A k \in 1..Len(l1) : Occurrences(l2, l1[k]) = Occurrences(l1, l1[k])
Ip(d) == <<10, 0, 0, d>>

\* C1: when scan_subnet returns normally, the reachable count plus the length
\* of the unreachable list is the number of hosts of the range, and every host
\* is counted exactly once: in the list (once) when its probe failed, in the
\* count otherwise.
C1_Completeness ==
    pc = "return99" =>
        /\ pingable_count + Len(ret) = Len(host_ips)
        /\ pingable_count = Cardinality({i \in HostIdx : fut[i].ok})
        /\ \A i \in HostIdx :
              Occurrences(ret, host_ips[i]) = IF fut[i].ok THEN 0 ELSE 1
        /\ \A k \in 1..Len(ret) : \E i \in HostIdx : ret[k] = host_ips[i]

C1_Witness ==
    /\ pc = "return99"
    /\ Len(host_ips) = 2
    /\ pingable_count = 1
    /\ Len(ret) = 1

C3_Ceiling ==
    /\ Cardinality(Busy) <= max_workers
    /\ Len(worker) <= max_workers

\* the ceiling binds: two workers, two probes running, four hosts waiting
C3_Witness ==
    /\ max_workers = 2
    /\ Cardinality(Busy) = max_workers
    /\ Len(queue) = 4
    /\ Len(host_ips) = 6

\* C4: for a range string that does not parse, scan_subnet raises to its
\* caller and no probe is issued.
C4_InvalidRangeRaises ==
    (Returned /\ ~ParseNetwork(subnet).ok) =>
        /\ pc = "raised"
        /\ probes = <<>>

\* C5: ping_host returns (target, False) for every failure of its probe and
\* never raises, so no probe outcome makes the scan fail: the scan ends in the
\* handler of line 101 only for a range or dispatch failure, and otherwise
\* classifies every host.
C5_ProbeNeverFailsScan ==
    /\ \A i \in HostIdx :
          fut[i].state = "finished" =>
              /\ ~fut[i].exc
              /\ fut[i].ip = host_ips[i]
              /\ prober[host_ips[i]] # "rc0" => ~fut[i].ok
    /\ e \in {"none", "AddressValueError", "NetmaskValueError", "RuntimeError"}
    /\ (Returned /\ e = "none") =>
          /\ pc = "return99"
          /\ yielded = HostIdx
          /\ pingable_count + Len(ret) = Len(host_ips)

\* a probe that could not be launched, in a scan that completed
C5_Witness ==
    /\ pc = "return99"
    /\ Len(host_ips) = 2
    /\ prober[host_ips[1]] = "OSError"
    /\ prober[host_ips[2]] = "rc0"
    /\ ret = <<host_ips[1]>>
    /\ pingable_count = 1

\* C6: a failure that is not a probe failure (the range does not parse, a
\* thread cannot be started while dispatching) reaches the caller of
\* scan_subnet as an error, never as a normal return value.
C6_FailurePropagates == (Returned /\ e # "none") => pc = "raised"

\* the prober's answers, as a classification of the hosts
Unreachable == {i \in HostIdx : prober[host_ips[i]] # "rc0"}
AllProbed == \A i \in HostIdx : host_ips[i] \in DOMAIN prober

C8_UsableHosts ==
    pc = "submit" =>
        LET p == PrefixLen(subnet)
            size == Pow2(32 - p)
            a == IPv4Value(<<subnet.addr[1].val, subnet.addr[2].val,
                             subnet.addr[3].val, subnet.addr[4].val>>)
            block == {x \in (a - size + 1)..(a + size - 1) : x \div size = a \div size}
            first == CHOOSE x \in block : \A y \in block : x <= y
            last == CHOOSE x \in block : \A y \in block : x >= y
            usable == IF p <= 30 THEN block \ {first, last} ELSE block
        IN /\ {IPv4Value(host_ips[k]) : k \in HostIdx} = usable
           /\ Len(host_ips) = Cardinality(usable)
           /\ IsSortedByAddr(host_ips)
           /\ \A k \in HostIdx : ToStr(IPv4Value(host_ips[k])) = host_ips[k]
           /\ p = 24 => /\ Len(host_ips) = 254
                        /\ host_ips[1][4] = 1
                        /\ host_ips[254][4] = 254
           /\ p = 31 => Len(host_ips) = 2
           /\ p = 32 => Len(host_ips) = 1

C8_Witness ==
    /\ pc = "submit"
    /\ subnet = Cidr(10, 1, 255, 9, 24)
    /\ Len(host_ips) = 254
    /\ host_ips[1] = <<10, 1, 255, 1>>
    /\ host_ips[254] = <<10, 1, 255, 254>>

BothNormal(k) == pc = "return99" /\ k \in 1..Len(prev) /\ prev[k].pc = "return99"

C10_OneProbePerTarget ==
    /\ \A i \in DOMAIN probes : probes[i] <= 1
    /\ \A i \in DOMAIN probes : probes[i] = 1 <=> fut[i].state \in {"running", "finished"}
    /\ \A k1, k2 \in 1..Len(queue) : queue[k1] = queue[k2] => k1 = k2
    /\ \A w1, w2 \in Busy : worker[w1] = worker[w2] => w1 = w2
    /\ \A w \in Busy : /\ fut[worker[w]].state = "running"
                       /\ \A k \in 1..Len(queue) : queue[k] # worker[w]
    /\ \A i \in DOMAIN fut : fut[i].state = "pending" <=> \E k \in 1..Len(queue) : queue[k] = i
    /\ \A i1, i2 \in HostIdx : host_ips[i1] = host_ips[i2] => i1 = i2
    /\ pc \in {"collect", "return99"} => submitted = Len(host_ips)
    /\ pc = "return99" => \A i \in HostIdx : probes[i] = 1

\* six hosts on two workers, the failed probes not retried
C10_Witness ==
    /\ pc = "return99"
    /\ max_workers = 2
    /\ Len(host_ips) = 6
    /\ Unreachable = {1, 3, 6}
    /\ probes = <<1, 1, 1, 1, 1, 1>>

\* C11: the count and the list have one writer: they change only in a merge
\* step of scan_subnet's own thread, which consumes one finished outcome that
\* was not consumed before and merges exactly that outcome; no step of a
\* worker thread changes them, and the number of merged outcomes is the number
\* of futures yielded.
C11_MergeStep(i) ==
    /\ pc = "collect"
    /\ fut[i].state = "finished"
    /\ yielded' = yielded \cup {i}
    /\ worker' = worker /\ fut' = fut /\ queue' = queue /\ probes' = probes
    /\ IF fut[i].ok
       THEN pingable_count' = pingable_count + 1 /\ non_pingable' = non_pingable
       ELSE pingable_count' = pingable_count /\ non_pingable' = Append(non_pingable, host_ips[i])

C11_SingleWriter ==
    /\ [](pc \in {"submit", "collect", "return99"} =>
              pingable_count + Len(non_pingable) = Cardinality(yielded))
    /\ [][(non_pingable' # non_pingable \/ pingable_count' # pingable_count) =>
              \E i \in HostIdx \ yielded : C11_MergeStep(i)]_vars

\* one outcome is merged while a worker is still probing
C11_Witness ==
    /\ pc = "collect"
    /\ Cardinality(yielded) = 1
    /\ Len(non_pingable) = 1
    /\ Busy # {}

\* C12: scan_subnet returns a result only after every target has produced its
\* one outcome and the outcome was aggregated: never while a target is not
\* submitted, queued or in flight.
C12_ReturnsOnlyWhenComplete ==
    Returned =>
        /\ submitted = Len(host_ips)
        /\ \A i \in HostIdx : fut[i].state = "finished" /\ probes[i] = 1 /\ i \in yielded

\* C13: while the scan is dispatching or collecting, a waiting probe does not
\* block the others: whenever a task is queued and fewer than max_workers
\* probes are running, an idle worker thread exists that can start it.
C13_WaitDoesNotBlock ==
    (pc \in {"submit", "collect"} /\ queue # <<>> /\ Cardinality(Busy) < max_workers) =>
        \E w \in 1..Len(worker) : worker[w] = 0 /\ ENABLED StartProbe(w)

\* with two workers, two probes are in flight at the same time
C13_Witness ==
    /\ max_workers = 2
    /\ Cardinality(Busy) = 2
    /\ \A w \in Busy : fut[worker[w]].state = "running"

\* C14: under fair scheduling of scan_subnet's thread and of the workers every
\* scan returns, and a scan that met no error returns with an outcome for
\* every target.
C14_Terminates ==
    <>(Returned /\ (e = "none" => \A i \in HostIdx : fut[i].state = "finished"))

\* a scan that returned after a probe ended by the subprocess timeout
C14_Witness ==
    /\ pc = "return99"
    /\ Len(host_ips) = 2
    /\ prober[host_ips[1]] = "TimeoutExpired"
    /\ prober[host_ips[2]] = "rc0"

\* the number of hosts of a parsed range, from its prefix length
HostCount(n) == IF n.prefixlen = 32 THEN 1
                ELSE IF n.prefixlen = 31 THEN 2
                ELSE Pow2(32 - n.prefixlen) - 2

\* C15: get_subnet_input returns only a range that parses, and a range of more
\* than 1024 hosts only after the answer y or yes; after an empty line, an
\* invalid line or a declined warning it prompts again, and no scan starts
\* before it has returned.
C15_InputValidated ==
    /\ pc # "notcalled" => ipc = "returned"
    /\ ipc = "returned" =>
          /\ line # EmptyLine
          /\ ParseNetwork(line).ok
          /\ ParseNetwork(subnet).ok
          /\ ParseNetwork(subnet).network = ParseNetwork(line).network
          /\ ParseNetwork(subnet).prefixlen = ParseNetwork(line).prefixlen
          /\ HostCount(ParseNetwork(subnet)) > 1024 => response.word \in {"y", "yes"}
    /\ (ipc = "prompt" /\ prompts > 0) =>
          \/ line = EmptyLine
          \/ ~ParseNetwork(line).ok
          \/ (HostCount(ParseNetwork(line)) > 1024 /\ response.word \notin {"y", "yes"})

\* a /8 returned on the second prompt, after the answer " YES "
C15_Witness ==
    /\ ipc = "returned"
    /\ prompts = 2
    /\ subnet = Cidr(10, 0, 0, 0, 8)
    /\ response = Answer("yes", TRUE, TRUE)

\* C16 as stated: when scan_subnet returns, on either path, no probe is
\* running and none is still queued.
C16_NothingQueued ==
    Returned => /\ Busy = {}
                /\ queue = <<>>
                /\ \A i \in DOMAIN fut : fut[i].state \notin {"pending", "running"}

\* C16 as amended: when scan_subnet returns, on either path, the pool has been
\* shut down and its threads joined: no probe is running and none starts
\* later; a task is still queued only when the thread that would have run it
\* could not be started and the pool has no thread, and it never runs.
C16_PoolJoined ==
    /\ [](Returned =>
            /\ Busy = {}
            /\ \A i \in DOMAIN fut : fut[i].state # "running"
            /\ queue # <<>> => (Len(worker) = 0 /\ e = "RuntimeError" /\ pc = "return103")
            /\ pc = "return99" => queue = <<>>)
    /\ [][Returned => (probes' = probes /\ fut' = fut /\ worker' = worker /\ queue' = queue)]_vars

\* the error path: a thread start failed while another worker was probing,
\* and scan_subnet returned after that probe ended
C16_Witness ==
    /\ pc = "return103"
    /\ e = "RuntimeError"
    /\ Len(worker) = 1
    /\ queue = <<>>
    /\ \E i \in HostIdx : fut[i].state = "finished"

\* C17: main's report is consistent with the scan: the total is the number of
\* targets probed, the pingable count printed is scan_subnet's reachable
\* count, and the all-pingable message is printed only when every host of the
\* range was probed and found reachable.
C17_ReportConsistent ==
    mpc = "reported" =>
        /\ report.total = Cardinality({i \in DOMAIN probes : probes[i] = 1})
        /\ report.msg = "found" => report.pingable = <<pingable_count>>
        /\ report.msg = "all_pingable" =>
              /\ host_ips # <<>>
              /\ \A i \in HostIdx : fut[i].state = "finished" /\ fut[i].ok

====
